---- MODULE Spec2Model ----
(***************************************************************************)
(* The four-stage weather pipeline of tasks.py: DataFetchingTask,          *)
(* DataCalculationTask, DataAggregationTask and DataAnalyzingTask, with    *)
(* the forecast client of external/client.py.                              *)
(*                                                                         *)
(* City names are the integers 1..n; a list of city names is in           *)
(* increasing order, and a dict keeps its keys in insertion order, which   *)
(* is that order too.  A quotient hours/total is kept as an exact          *)
(* fraction <<numerator, denominator>> in lowest terms (the rounding of    *)
(* floating point division is not modelled).                               *)
(***************************************************************************)
EXTENDS Integers, Sequences, FiniteSets, TLC

\* ------------------------------------------------------------------ bounds
NumCities == 2      \* cities of a pipeline run
MaxDays == 2        \* days of a calculated-metrics document
MaxHours == 2       \* hours_count of a day is in -1..MaxHours
MaxTemp == 1        \* temp_avg of a day is in -1..MaxTemp
MaxCond == 1        \* relevant_cond_hours of a day is in 0..MaxCond
MaxKeys == 3        \* cities of a dict given to DataAnalyzingTask on its own
MaxFragments == 3   \* fragments of a diagnostic stream
MaxRuns == 2        \* runs of DataAggregationTask over the same files

CITIES == 1..NumCities

\* A key that a dict does not hold.
Absent == <<>>

\* ------------------------------------------------------- forecast source
\* What urlopen and json.loads can do with one city's request.
SourceOutcomes == {"info", "noinfo", "unreachable", "badstatus", "malformed"}

\* YandexWeatherAPI.__do_req / get_forecasting: a document, or a raised
\* YandexWeatherAPIError with its message (every exception, the one for a
\* non-success status included, is wrapped by the except clause).
get_forecasting(outcome) ==
    CASE outcome = "info"        -> [raised |-> FALSE, info |-> TRUE, message |-> ""]
      [] outcome = "noinfo"      -> [raised |-> FALSE, info |-> FALSE, message |-> ""]
      [] outcome = "unreachable" ->
            [raised |-> TRUE, info |-> FALSE,
             message |-> "Unexpected error: <urlopen error>"]
      [] outcome = "badstatus"   ->
            [raised |-> TRUE, info |-> FALSE,
             message |-> "Unexpected error: Error during execute request."]
      [] outcome = "malformed"   ->
            [raised |-> TRUE, info |-> FALSE,
             message |-> "Unexpected error: Extra data"]

get_city_data_mut(city_name, outcome) ==
    LET r == get_forecasting(outcome) IN
    IF r.raised
        THEN [city_name |-> city_name, status |-> r.message, saved |-> FALSE]
        ELSE [city_name |-> city_name,
              status |-> IF r.info THEN "OK" ELSE "No info", saved |-> TRUE]

\* DataFetchingTask._get_city_data: the record returned for a city, and
\* whether the fetched file is written.
get_city_data(city_name, outcome) ==
    LET r == get_forecasting(outcome) IN
    IF r.raised
        THEN [city_name |-> city_name, status |-> r.message, saved |-> FALSE]
        ELSE IF r.info
            THEN [city_name |-> city_name, status |-> "OK", saved |-> TRUE]
            ELSE [city_name |-> city_name, status |-> "No info", saved |-> FALSE]

\* ------------------------------------------------------------ fractions
Abs(x) == IF x < 0 THEN -x ELSE x

RECURSIVE Gcd(_, _)
Gcd(a, b) == IF b = 0 THEN a ELSE Gcd(b, a % b)

\* n / d for d > 0, in lowest terms.
Frac(n, d) ==
    LET g == Gcd(Abs(n), d) IN <<n \div g, d \div g>>

FracLess(x, y) == x[1] * y[2] < y[1] * x[2]

\* ------------------------------------------------- calculated-metrics data
Day(date, hours_count, temp_avg, relevant_cond_hours) ==
    [date |-> date, hours_count |-> hours_count, temp_avg |-> temp_avg,
     relevant_cond_hours |-> relevant_cond_hours]

\* The days of the documents the external transform writes in a pipeline run.
\* date 0 stands for a day without a 'date' key.
Warm == <<Day(1, 2, 1, 1)>>
Cool == <<Day(1, 1, 0, 1), Day(2, 0, 1, 0)>>
NoHours == <<Day(1, 0, 1, 1)>>
TransformDays == {Cool, NoHours}

\* A file of intermediate storage: absent, not JSON, the empty document {},
\* or a document with a list of days.  fresh: written in this run.
NoFile == [kind |-> "absent", days |-> <<>>, fresh |-> FALSE]
BadFile == [kind |-> "unparsable", days |-> <<>>, fresh |-> FALSE]
EmptyDocFile == [kind |-> "empty", days |-> <<>>, fresh |-> FALSE]
DocFile(days, fresh) == [kind |-> "doc", days |-> days, fresh |-> fresh]

\* The keys of intermediate storage: f'{data_dir}/{city_name}_fetched.json'
\* and f'{data_dir}/{city_name}_calc.json'.
FetchedKey(city_name) == <<city_name, "_fetched.json">>

CalcKey_mut(city_name) == <<0, "_calc.json">>

CalcKey(city_name) == <<city_name, "_calc.json">>

\* ----------------------------------------------------- weighted average
\* The loop of _calc_weighted_avg: the sum of hours_count * day[field] over
\* the days with hours_count > 0 (field "one" sums hours_count itself).
Weight_mut(day) == IF day.hours_count > 0 THEN 1 ELSE 0

Weight(day) == IF day.hours_count > 0 THEN day.hours_count ELSE 0

RECURSIVE WeightedSum(_, _)
WeightedSum(days, field) ==
    IF days = <<>> THEN 0
    ELSE LET day == Head(days)
             v == CASE field = "temp_avg" -> day.temp_avg
                    [] field = "relevant_cond_hours" -> day.relevant_cond_hours
                    [] field = "one" -> 1
         IN Weight(day) * v + WeightedSum(Tail(days), field)

\* d['agg_temp_avg'] = 0, d['agg_relevant_cond_hours'] = 0: what the sum
\* starts from, whatever the key held before (Absent: the key was not there).
Accumulator_mut(previous) == IF previous = Absent THEN <<0, 1>> ELSE previous

Accumulator(previous) == <<0, 1>>

\* (start + sum) / total for a fraction start.
Quotient(start, sum, total) == Frac(start[1] + sum * start[2], start[2] * total)

\* DataAggregationTask._calc_weighted_avg on the dict d = agg_city_data['data'],
\* which it changes in place: the two averages, or ZeroDivisionError when
\* total_hours_count is 0.
calc_weighted_avg_in_place(d) ==
    LET total_hours_count == WeightedSum(d.days, "one") IN
    IF total_hours_count = 0
        THEN [raised |-> TRUE, agg_temp_avg |-> Absent,
              agg_relevant_cond_hours |-> Absent]
        ELSE [raised |-> FALSE,
              agg_temp_avg |->
                  Quotient(Accumulator(d.agg_temp_avg),
                           WeightedSum(d.days, "temp_avg"), total_hours_count),
              agg_relevant_cond_hours |->
                  Quotient(Accumulator(d.agg_relevant_cond_hours),
                           WeightedSum(d.days, "relevant_cond_hours"),
                           total_hours_count)]

\* The same on the data of a file just loaded, with these days.
calc_weighted_avg(days) ==
    calc_weighted_avg_in_place([days |-> days, agg_temp_avg |-> Absent,
                                agg_relevant_cond_hours |-> Absent])

\* -------------------------------------------------------------- transform
\* A text (a diagnostic stream, a calculation status) is a sequence of
\* fragments; `x in text` is the membership of a fragment.
OK == <<"OK">>
NoSuchFile == "No such file or directory"
Contains(text, fragment) == \E i \in 1..Len(text) : text[i] = fragment

\* The external transform (external/analyzer.py) on a fetched file: what it
\* prints on its diagnostic stream and the days it writes, if it writes.
\* how: "ok" or "fail", what it does with an input it can read.
TransformHows == {"ok", "fail"}
Transform(input, how, days) ==
    IF input = "absent"
        THEN [stderr |-> <<"FileNotFoundError", NoSuchFile>>, wrote |-> FALSE,
              days |-> <<>>]
        ELSE IF how = "ok"
            THEN [stderr |-> <<>>, wrote |-> TRUE, days |-> days]
            ELSE [stderr |-> <<"Traceback">>, wrote |-> FALSE, days |-> <<>>]

\* DataCalculationTask._calc_city_data: the status from the diagnostic
\* stream of the transform.
calc_status_mut(stderr) == IF stderr # <<>> THEN stderr ELSE OK

calc_status(stderr) ==
    IF stderr # <<>>
        THEN IF Contains(stderr, NoSuchFile) THEN <<NoSuchFile>> ELSE stderr
        ELSE OK

calc_city_data(city_name, stderr) ==
    [city_name |-> city_name, status |-> calc_status(stderr)]

\* ------------------------------------------------------------ aggregation
EmptyData ==
    [empty |-> TRUE, days |-> <<>>, agg_temp_avg |-> Absent,
     agg_relevant_cond_hours |-> Absent]

\* An aggregated record; rank 0 stands for a record without a 'rank' key,
\* has_status FALSE for one without a 'status' key.
AggRecord(city_name, status, data) ==
    [city_name |-> city_name, has_status |-> TRUE, status |-> status,
     data |-> data, rank |-> 0]

get_agg_city_data_mut(city_name, file) ==
    IF file.kind = "doc"
        THEN LET avg == calc_weighted_avg(file.days) IN
             [raised |-> avg.raised,
              record |-> AggRecord(city_name, "OK",
                            [empty |-> FALSE, days |-> file.days,
                             agg_temp_avg |-> avg.agg_temp_avg,
                             agg_relevant_cond_hours |-> avg.agg_relevant_cond_hours])]
        ELSE [raised |-> FALSE, record |-> AggRecord(city_name, "OK", EmptyData)]

\* DataAggregationTask._get_agg_city_data on the city's calculated-metrics
\* file: the record, or the ZeroDivisionError of _calc_weighted_avg.
get_agg_city_data(city_name, file) ==
    CASE file.kind = "absent" ->
            [raised |-> FALSE,
             record |-> AggRecord(city_name,
                                  "[Errno 2] No such file or directory", EmptyData)]
      [] file.kind = "unparsable" ->
            [raised |-> FALSE,
             record |-> AggRecord(city_name, "Expecting value", EmptyData)]
      [] file.kind = "empty" ->
            [raised |-> FALSE, record |-> AggRecord(city_name, "OK", EmptyData)]
      [] file.kind = "doc" ->
            LET avg == calc_weighted_avg(file.days) IN
            [raised |-> avg.raised,
             record |-> AggRecord(city_name, "OK",
                           [empty |-> FALSE, days |-> file.days,
                            agg_temp_avg |-> avg.agg_temp_avg,
                            agg_relevant_cond_hours |-> avg.agg_relevant_cond_hours])]

\* --------------------------------------------------------------- analysis
Min(S) == CHOOSE x \in S : \A y \in S : x <= y

\* The keys of a dict in iteration order.
RECURSIVE KeysInOrder(_)
KeysInOrder(S) ==
    IF S = {} THEN <<>> ELSE <<Min(S)>> \o KeysInOrder(S \ {Min(S)})

Keys(d) == KeysInOrder(DOMAIN d)

\* agg_cities_data[city_name].get('status', 'error')
StatusOf(record) == IF record.has_status THEN record.status ELSE "error"

\* The filter of _rank_cities: the cities that are kept.
Rankable_mut(agg) == {c \in DOMAIN agg : ~agg[c].has_status \/ agg[c].status = "OK"}

Rankable(agg) == {c \in DOMAIN agg : StatusOf(agg[c]) = "OK"}

IsLive(day) == day.hours_count > 0

\* data['data']['days'] = [day for day in ... if day['hours_count'] > 0]
Trim(record) ==
    [record EXCEPT !.data.days = SelectSeq(record.data.days, IsLive),
                   !.data.empty = FALSE]

RankingEntry(city_name, data) ==
    [city_name |-> city_name, agg_temp_avg |-> data.agg_temp_avg,
     agg_relevant_cond_hours |-> data.agg_relevant_cond_hours, rank |-> 0]

\* The order of the sort key (agg_temp_avg, agg_relevant_cond_hours).
KeyLess(x, y) ==
    \/ FracLess(x.agg_temp_avg, y.agg_temp_avg)
    \/ /\ x.agg_temp_avg = y.agg_temp_avg
       /\ FracLess(x.agg_relevant_cond_hours, y.agg_relevant_cond_hours)

\* list.sort(key=..., reverse=True): descending and stable.
RECURSIVE InsertDesc(_, _)
InsertDesc(sorted, x) ==
    IF sorted = <<>> THEN <<x>>
    ELSE IF KeyLess(Head(sorted), x) THEN <<x>> \o sorted
    ELSE <<Head(sorted)>> \o InsertDesc(Tail(sorted), x)

SortDesc_mut(entries) == entries

RECURSIVE SortDesc(_)
SortDesc(entries) ==
    IF entries = <<>> THEN <<>>
    ELSE InsertDesc(SortDesc(SubSeq(entries, 1, Len(entries) - 1)),
                    entries[Len(entries)])

\* for i, city_name in enumerate(ranking_cities): city_name['rank'] = i + 1
Enumerate_mut(entries) ==
    [i \in 1..Len(entries) |->
        [entries[i] EXCEPT !.rank =
            1 + Cardinality({j \in 1..Len(entries) : KeyLess(entries[i], entries[j])})]]

Enumerate(entries) ==
    [i \in 1..Len(entries) |-> [entries[i] EXCEPT !.rank = i]]

\* DataAnalyzingTask._rank_cities: the dict as it is left (filtered and
\* trimmed in place, ranks written back), the ranking entries, and whether
\* building an entry raised KeyError (a kept city without an average).
rank_cities(agg_cities_data) ==
    LET kept == Rankable(agg_cities_data)
        trimmed == [c \in kept |-> Trim(agg_cities_data[c])]
        order == KeysInOrder(kept)
        keyerror == \E c \in kept :
                        \/ trimmed[c].data.agg_temp_avg = Absent
                        \/ trimmed[c].data.agg_relevant_cond_hours = Absent
        entries == [i \in 1..Len(order) |->
                        RankingEntry(order[i], trimmed[order[i]].data)]
        ranking_cities == Enumerate(SortDesc(entries))
        rank_of(c) == (CHOOSE i \in 1..Len(ranking_cities) :
                            ranking_cities[i].city_name = c)
    IN IF keyerror
        THEN [raised |-> TRUE, agg_cities_data |-> trimmed,
              ranking_cities |-> <<>>]
        ELSE [raised |-> FALSE,
              agg_cities_data |->
                  [c \in kept |->
                      [trimmed[c] EXCEPT !.rank = ranking_cities[rank_of(c)].rank]],
              ranking_cities |-> ranking_cities]

\* x[1].get('rank', len(agg_cities_data))
RankKey(agg, c) == IF agg[c].rank = 0 THEN Cardinality(DOMAIN agg) ELSE agg[c].rank

\* sorted(agg_cities_data.items(), key=rank): ascending and stable.
RECURSIVE InsertByRank(_, _, _)
InsertByRank(agg, sorted, c) ==
    IF sorted = <<>> THEN <<c>>
    ELSE IF RankKey(agg, c) < RankKey(agg, Head(sorted)) THEN <<c>> \o sorted
    ELSE <<Head(sorted)>> \o InsertByRank(agg, Tail(sorted), c)

RECURSIVE SortByRank(_, _)
SortByRank(agg, keys) ==
    IF keys = <<>> THEN <<>>
    ELSE InsertByRank(agg, SortByRank(agg, SubSeq(keys, 1, Len(keys) - 1)),
                      keys[Len(keys)])

SameTuple(x, y) ==
    /\ x.agg_relevant_cond_hours = y.agg_relevant_cond_hours
    /\ x.agg_temp_avg = y.agg_temp_avg

\* The loop of _find_best_city: the first city and the cities that follow
\* it with its tuple, up to the first that differs.
RECURSIVE BestPrefix(_, _, _)
BestPrefix(agg, best_city, rest) ==
    IF rest = <<>> THEN <<>>
    ELSE IF SameTuple(agg[Head(rest)].data, best_city)
        THEN <<Head(rest)>> \o BestPrefix(agg, best_city, Tail(rest))
        ELSE <<>>

best_cities_of_mut(agg, sorted_cities) ==
    IF sorted_cities = <<>> THEN <<>> ELSE <<sorted_cities[1]>>

best_cities_of(agg, sorted_cities) ==
    IF sorted_cities = <<>> THEN <<>>
    ELSE <<sorted_cities[1]>>
            \o BestPrefix(agg, agg[sorted_cities[1]].data, Tail(sorted_cities))

\* One sheet.write(row, col, ...): what says which value it is.
Cell(row, col, what, city) == [row |-> row, col |-> col, what |-> what, city |-> city]

\* The writes of the two rows of the city at position k of sorted_cities.
CityWrites(agg, sorted_cities, k, ndates) ==
    LET city == sorted_cities[k]
        days == agg[city].data.days
        row == 2 * k - 1
    IN <<Cell(row, 0, "city", city), Cell(row, 1, "temp label", city)>>
       \o [i \in 1..Len(days) |-> Cell(row, i + 1, "temp_avg", city)]
       \o <<Cell(row, ndates + 2, "agg_temp_avg", city),
            Cell(row, ndates + 3, "rank", city),
            Cell(row + 1, 1, "cond label", city)>>
       \o [i \in 1..Len(days) |-> Cell(row + 1, i + 1, "relevant_cond_hours", city)]
       \o <<Cell(row + 1, ndates + 2, "agg_relevant_cond_hours", city)>>

RECURSIVE AllCityWrites(_, _, _, _)
AllCityWrites(agg, sorted_cities, k, ndates) ==
    IF k > Len(sorted_cities) THEN <<>>
    ELSE CityWrites(agg, sorted_cities, k, ndates)
            \o AllCityWrites(agg, sorted_cities, k + 1, ndates)

\* [day['date'] for day in next(iter(agg_cities_data.values()))['data']['days']]
\* raises KeyError at a day without a 'date' key (date 0).
DatesRaise(agg) ==
    LET days == agg[Keys(agg)[1]].data.days IN
    \E i \in 1..Len(days) : days[i].date = 0

\* DataAnalyzingTask._generate_output_report: the cells written, in order.
\* The header dates are those of the first city of the dict.
generate_output_report(agg, sorted_cities) ==
    LET dates == agg[Keys(agg)[1]].data.days
        ndates == Len(dates)
    IN <<Cell(0, 0, "corner", 0)>>
       \o [i \in 1..ndates |-> Cell(0, i + 1, "date", 0)]
       \o <<Cell(0, ndates + 2, "average", 0), Cell(0, ndates + 3, "rating", 0)>>
       \o AllCityWrites(agg, sorted_cities, 1, ndates)

\* What the workbook does: "ok", or "xlsx error" (an XlsxWriterException).
ReportHows == {"ok", "xlsx error"}

\* except xlsxwriter.exceptions.XlsxWriterException: the exceptions of
\* _generate_output_report that _find_best_city handles.
Handled(exception) == exception = "XlsxWriterException"

\* DataAnalyzingTask._find_best_city: the list returned and the report, or
\* the exception of the report that the except clause lets through (the
\* workbook is then never closed and no report is left).
find_best_city(agg, how) ==
    LET sorted_cities == SortByRank(agg, Keys(agg))
        exception == IF sorted_cities = <<>> THEN ""
                     ELSE IF DatesRaise(agg) THEN "KeyError"
                     ELSE IF how = "xlsx error" THEN "XlsxWriterException"
                     ELSE ""
    IN [raised |-> exception # "" /\ ~Handled(exception),
        best_cities |-> IF exception # "" /\ ~Handled(exception) THEN <<>>
                        ELSE best_cities_of(agg, sorted_cities),
        report |-> IF sorted_cities # <<>> /\ exception = ""
                    THEN generate_output_report(agg, sorted_cities)
                    ELSE <<>>]

\* ------------------------------------------------------------------ state
VARIABLES
    main_pc,          \* __main__: "fetch", "calc", "agg", "analyze", "done",
                      \* "crashed"; "none" when a task is run on its own
    fetched,          \* the fetched file of each city: "absent", "stale", "fresh"
    calc_files,       \* the calculated-metrics file of each city
    fetch_pc,         \* DataFetchingTask.run: "off", "idle", "submitted", "collecting"
                      \* (as_completed yields, or is at the top of its loop),
                      \* "waiting" (as_completed waits for a future to finish),
                      \* "unwinding" (TimeoutError, in the executor's exit),
                      \* "returned", "raised"
    futures,          \* futures_cities: state, outcome and result of each
    seen,             \* the finished futures as_completed has taken to yield
    collected,        \* the futures as_completed has yielded
    queue,            \* self._queue
    expired,          \* the timeout of as_completed has passed
    late,             \* history: the cities unfinished when it passed
    calc_pc,          \* DataCalculationTask.run: "off", "idle", "mapping", "returned"
    calc_tasks,       \* the pool's task of each city
    calc_results,     \* the dict run returns
    agg_pc,           \* DataAggregationTask.run: ... "returned", "raised"
    agg_tasks,
    agg_data,         \* the dict run returns
    an_pc,            \* DataAnalyzingTask.run: "off", "idle", "ranked",
                      \* "returned", "raised"
    given,            \* history: the dict the task was constructed with
    agg_cities_data,  \* self.agg_cities_data, changed in place
    ranking_cities,   \* the ranking entries of _rank_cities
    best_cities,      \* the list run returns
    report,           \* the cells written to the workbook
    avg_pc,           \* _calc_weighted_avg called on its own: "off", "idle", "done"
    avg_days,         \* agg_city_data['data']['days'] of that call
    avg_out,          \* what the call gave
    agg_first,        \* history: the dict the first run returned, once the
                      \* aggregation is done again
    agg_runs,         \* the runs of DataAggregationTask started so far
    reapplied,        \* the cities to whose returned record _calc_weighted_avg
                      \* was applied again
    status_pc,        \* _calc_city_data called on its own: "off", "idle", "done"
    run_stderr,       \* run.stderr of that call
    calc_result       \* the dict the call returned

storeVars == <<fetched, calc_files>>
fetchVars == <<fetch_pc, futures, seen, collected, queue, expired, late>>
calcVars == <<calc_pc, calc_tasks, calc_results>>
aggVars == <<agg_pc, agg_tasks, agg_data, agg_first, agg_runs, reapplied>>
anVars == <<an_pc, given, agg_cities_data, ranking_cities, best_cities, report>>
avgVars == <<avg_pc, avg_days, avg_out>>
statusVars == <<status_pc, run_stderr, calc_result>>
vars == <<main_pc, storeVars, fetchVars, calcVars, aggVars, anVars, avgVars,
          statusVars>>

NoRecord == [city_name |-> 0, status |-> ""]
NoAggRecord == AggRecord(0, "", EmptyData)

PendingFutures == [c \in CITIES |-> [state |-> "pending", outcome |-> "", result |-> NoRecord]]
PendingCalc == [c \in CITIES |-> [state |-> "pending", stderr |-> <<>>, result |-> <<>>]]
PendingAgg == [c \in CITIES |-> [state |-> "pending", raised |-> FALSE, record |-> NoAggRecord]]

FetchIdle ==
    /\ futures = PendingFutures /\ seen = {} /\ collected = {} /\ queue = <<>>
    /\ expired = FALSE /\ late = {}
CalcIdle == calc_tasks = PendingCalc /\ calc_results = <<>>
AggIdle ==
    /\ agg_tasks = PendingAgg /\ agg_data = <<>>
    /\ agg_first = <<>> /\ agg_runs = 1 /\ reapplied = {}
AnIdle ==
    /\ given = <<>> /\ agg_cities_data = <<>> /\ ranking_cities = <<>>
    /\ best_cities = <<>> /\ report = <<>>
NoAvg == [raised |-> FALSE, agg_temp_avg |-> Absent, agg_relevant_cond_hours |-> Absent]
AvgOff == avg_pc = "off" /\ avg_days = <<>> /\ avg_out = NoAvg
NoCalcResult == [city_name |-> 0, status |-> <<>>]
StatusOff == status_pc = "off" /\ run_stderr = <<>> /\ calc_result = NoCalcResult

\* ------------------------------------------------------------ fetch stage
\* run: the executor is created and every city's task submitted.
FetchSubmit ==
    /\ fetch_pc = "idle"
    /\ fetch_pc' = "submitted"
    /\ UNCHANGED <<main_pc, storeVars, futures, seen, collected, queue, expired,
                   late, calcVars, aggVars, anVars, avgVars, statusVars>>

\* A worker thread takes a submitted task; the executor's exit (shutdown
\* with wait) still runs the tasks that are pending.
FetchStart(c) ==
    /\ fetch_pc \in {"submitted", "collecting", "waiting", "unwinding"}
    /\ futures[c].state = "pending"
    /\ futures' = [futures EXCEPT ![c].state = "running"]
    /\ UNCHANGED <<main_pc, storeVars, fetch_pc, seen, collected, queue, expired,
                   late, calcVars, aggVars, anVars, avgVars, statusVars>>

\* _get_city_data(c) ends: the source answered with `outcome`.
FetchFinish(c, outcome) ==
    /\ futures[c].state = "running"
    /\ LET r == get_city_data(c, outcome) IN
        /\ futures' = [futures EXCEPT ![c] =
                [state |-> "finished", outcome |-> outcome,
                 result |-> [city_name |-> r.city_name, status |-> r.status]]]
        /\ fetched' = IF r.saved THEN [fetched EXCEPT ![c] = "fresh"] ELSE fetched
    /\ UNCHANGED <<main_pc, calc_files, fetch_pc, seen, collected, queue, expired,
                   late, calcVars, aggVars, anVars, avgVars, statusVars>>

\* The futures that have finished and that as_completed has not taken yet.
Unseen == {c \in CITIES : futures[c].state = "finished"} \ (seen \cup collected)

\* as_completed(futures_cities, timeout=3) is called: its clock starts and
\* it takes the futures that have finished already.
FetchAsCompleted ==
    /\ fetch_pc = "submitted"
    /\ fetch_pc' = "collecting"
    /\ seen' = Unseen
    /\ UNCHANGED <<main_pc, storeVars, futures, collected, queue, expired, late,
                   calcVars, aggVars, anVars, avgVars, statusVars>>

\* as_completed, having yielded what it had taken and with futures left
\* to yield, finds at the top of its loop that the timeout has not passed:
\* it waits for a future to finish, for the time that is left.
FetchWait ==
    /\ fetch_pc = "collecting"
    /\ seen = {}
    /\ collected # CITIES
    /\ ~expired
    /\ fetch_pc' = "waiting"
    /\ UNCHANGED <<main_pc, storeVars, futures, seen, collected, queue, expired,
                   late, calcVars, aggVars, anVars, avgVars, statusVars>>

\* The wait of as_completed ends, because a future finished or because
\* the time is over: it takes the futures that finished since.
FetchWake ==
    /\ fetch_pc = "waiting"
    /\ Unseen # {} \/ expired
    /\ seen' = Unseen
    /\ fetch_pc' = "collecting"
    /\ UNCHANGED <<main_pc, storeVars, futures, collected, queue, expired,
                   late, calcVars, aggVars, anVars, avgVars, statusVars>>

\* as_completed yields a future it has taken: self._queue.put(future.result()).
FetchCollect(c) ==
    /\ fetch_pc = "collecting"
    /\ c \in seen
    /\ seen' = seen \ {c}
    /\ collected' = collected \cup {c}
    /\ queue' = Append(queue, futures[c].result)
    /\ UNCHANGED <<main_pc, storeVars, fetch_pc, futures, expired, late,
                   calcVars, aggVars, anVars, avgVars, statusVars>>

\* The 3 seconds of as_completed pass while it still has futures to yield.
DeadlineExpire ==
    /\ fetch_pc \in {"collecting", "waiting"}
    /\ ~expired
    /\ collected # CITIES
    /\ expired' = TRUE
    /\ late' = {c \in CITIES : futures[c].state # "finished"}
    /\ UNCHANGED <<main_pc, storeVars, fetch_pc, futures, seen, collected, queue,
                   calcVars, aggVars, anVars, avgVars, statusVars>>

\* as_completed, having yielded what it had taken, finds at the top of its
\* loop the timeout passed with futures it has not taken (finished since
\* or not): it raises TimeoutError, which leaves the loop for the
\* executor's exit.
FetchTimeout ==
    /\ fetch_pc = "collecting"
    /\ expired
    /\ seen = {}
    /\ collected # CITIES
    /\ fetch_pc' = "unwinding"
    /\ UNCHANGED <<main_pc, storeVars, futures, seen, collected, queue, expired,
                   late, calcVars, aggVars, anVars, avgVars, statusVars>>

\* ThreadPoolExecutor.__exit__: shutdown(wait=True) joins every worker.
ExecutorJoined == \A c \in CITIES : futures[c].state = "finished"

\* Every future was yielded: the with block ends and run returns the queue.
FetchReturn ==
    /\ fetch_pc = "collecting"
    /\ seen = {}
    /\ collected = CITIES
    /\ ExecutorJoined
    /\ fetch_pc' = "returned"
    /\ UNCHANGED <<main_pc, storeVars, futures, seen, collected, queue, expired, late,
                   calcVars, aggVars, anVars,
                   avgVars, statusVars>>

\* The TimeoutError leaves run once the executor's exit has joined the workers.
FetchRaise ==
    /\ fetch_pc = "unwinding"
    /\ ExecutorJoined
    /\ fetch_pc' = "raised"
    /\ UNCHANGED <<main_pc, storeVars, futures, seen, collected, queue, expired, late,
                   calcVars, aggVars, anVars,
                   avgVars, statusVars>>

\* ------------------------------------------------------ calculation stage
\* run: pool.map hands the cities to the worker processes.
CalcMap ==
    /\ calc_pc = "idle"
    /\ calc_pc' = "mapping"
    /\ UNCHANGED <<main_pc, storeVars, fetchVars, calc_tasks, calc_results,
                   aggVars, anVars,
                   avgVars, statusVars>>

CalcStart(c) ==
    /\ calc_pc = "mapping"
    /\ calc_tasks[c].state = "pending"
    /\ calc_tasks' = [calc_tasks EXCEPT ![c].state = "running"]
    /\ UNCHANGED <<main_pc, storeVars, fetchVars, calc_pc, calc_results,
                   aggVars, anVars,
                   avgVars, statusVars>>

\* _calc_city_data(c) ends: the transform ran on the city's fetched file.
CalcFinish(c, how, days) ==
    /\ calc_tasks[c].state = "running"
    /\ LET t == Transform(fetched[c], how, days) IN
        /\ calc_tasks' = [calc_tasks EXCEPT ![c] =
                [state |-> "done", stderr |-> t.stderr,
                 result |-> calc_city_data(c, t.stderr).status]]
        /\ calc_files' = IF t.wrote
                            THEN [calc_files EXCEPT ![c] = DocFile(t.days, TRUE)]
                            ELSE calc_files
    /\ UNCHANGED <<main_pc, fetched, fetchVars, calc_pc, calc_results,
                   aggVars, anVars,
                   avgVars, statusVars>>

\* pool.map returns when every task has delivered its result.
CalcMapDone_mut == \E c \in CITIES : calc_tasks[c].state = "done"

CalcMapDone == \A c \in CITIES : calc_tasks[c].state = "done"

\* {calc_result['city_name']: calc_result['status'] for ... in pool.map(...)}
CalcResults_mut ==
    [c \in {d \in CITIES : calc_tasks[d].stderr = <<>>} |-> calc_tasks[c].result]

CalcResults == [c \in CITIES |-> calc_tasks[c].result]

CalcReturn ==
    /\ calc_pc = "mapping"
    /\ CalcMapDone
    /\ calc_results' = CalcResults
    /\ calc_pc' = "returned"
    /\ UNCHANGED <<main_pc, storeVars, fetchVars, calc_tasks, aggVars, anVars,
                   avgVars, statusVars>>

\* ------------------------------------------------------ aggregation stage
AggMap ==
    /\ agg_pc = "idle"
    /\ agg_pc' = "mapping"
    /\ UNCHANGED <<main_pc, storeVars, fetchVars, calcVars, agg_tasks, agg_data,
                   agg_first, agg_runs, reapplied,
                   anVars,
                   avgVars, statusVars>>

AggStart(c) ==
    /\ agg_pc = "mapping"
    /\ agg_tasks[c].state = "pending"
    /\ agg_tasks' = [agg_tasks EXCEPT ![c].state = "running"]
    /\ UNCHANGED <<main_pc, storeVars, fetchVars, calcVars, agg_pc, agg_data,
                   agg_first, agg_runs, reapplied,
                   anVars,
                   avgVars, statusVars>>

\* _get_agg_city_data(c) ends, with a record or with ZeroDivisionError.
AggFinish(c) ==
    /\ agg_tasks[c].state = "running"
    /\ LET r == get_agg_city_data(c, calc_files[c]) IN
        agg_tasks' = [agg_tasks EXCEPT ![c] =
            [state |-> "done", raised |-> r.raised,
             record |-> IF r.raised THEN NoAggRecord ELSE r.record]]
    /\ UNCHANGED <<main_pc, storeVars, fetchVars, calcVars, agg_pc, agg_data,
                   agg_first, agg_runs, reapplied,
                   anVars,
                   avgVars, statusVars>>

\* pool.map is ready once all tasks are done, also when one of them raised.
AggMapDone == \A c \in CITIES : agg_tasks[c].state = "done"

\* {_['city_name']: _ for _ in pool.map(...)}
AggReturn ==
    /\ agg_pc = "mapping"
    /\ AggMapDone
    /\ \A c \in CITIES : ~agg_tasks[c].raised
    /\ agg_data' = [c \in CITIES |-> agg_tasks[c].record]
    /\ agg_pc' = "returned"
    /\ UNCHANGED <<main_pc, storeVars, fetchVars, calcVars, agg_tasks, agg_first,
                   agg_runs, reapplied, anVars,
                   avgVars, statusVars>>

\* pool.map raises the exception of a task in run.
AggRaise ==
    /\ agg_pc = "mapping"
    /\ AggMapDone
    /\ \E c \in CITIES : agg_tasks[c].raised
    /\ agg_pc' = "raised"
    /\ UNCHANGED <<main_pc, storeVars, fetchVars, calcVars, agg_tasks, agg_data,
                   agg_first, agg_runs, reapplied,
                   anVars,
                   avgVars, statusVars>>

\* DataAggregationTask(cities).run() is called again over the same files.
AggRerun ==
    /\ main_pc = "none"
    /\ agg_pc = "returned"
    /\ agg_runs < MaxRuns
    /\ agg_first' = IF agg_first = <<>> THEN agg_data ELSE agg_first
    /\ agg_runs' = agg_runs + 1
    /\ agg_pc' = "idle" /\ agg_tasks' = PendingAgg /\ agg_data' = <<>>
    /\ UNCHANGED <<main_pc, storeVars, fetchVars, calcVars, reapplied, anVars,
                   avgVars, statusVars>>

\* _calc_weighted_avg is applied again to a record of the dict returned,
\* one that it has aggregated: the record's data is changed in place.
Reaggregate(c) ==
    /\ main_pc = "none"
    /\ agg_pc = "returned"
    /\ c \notin reapplied
    /\ ~agg_data[c].data.empty
    /\ LET r == calc_weighted_avg_in_place(agg_data[c].data) IN
        /\ ~r.raised
        /\ agg_data' = [agg_data EXCEPT
                ![c].data.agg_temp_avg = r.agg_temp_avg,
                ![c].data.agg_relevant_cond_hours = r.agg_relevant_cond_hours]
    /\ agg_first' = IF agg_first = <<>> THEN agg_data ELSE agg_first
    /\ reapplied' = reapplied \cup {c}
    /\ UNCHANGED <<main_pc, storeVars, fetchVars, calcVars, agg_pc, agg_tasks,
                   agg_runs, anVars, avgVars, statusVars>>

\* --------------------------------------------------------- analysis stage
\* run: _rank_cities(self.agg_cities_data)
AnalyzeRank ==
    /\ an_pc = "idle"
    /\ LET r == rank_cities(agg_cities_data) IN
        /\ agg_cities_data' = r.agg_cities_data
        /\ ranking_cities' = r.ranking_cities
        /\ an_pc' = IF r.raised THEN "raised" ELSE "ranked"
    /\ UNCHANGED <<main_pc, storeVars, fetchVars, calcVars, aggVars, given,
                   best_cities, report,
                   avgVars, statusVars>>

\* run: _find_best_city(ranked_cities), the report included.
AnalyzeFind(how) ==
    /\ an_pc = "ranked"
    /\ LET r == find_best_city(agg_cities_data, how) IN
        /\ best_cities' = r.best_cities
        /\ report' = r.report
        /\ an_pc' = IF r.raised THEN "raised" ELSE "returned"
    /\ UNCHANGED <<main_pc, storeVars, fetchVars, calcVars, aggVars, given,
                   agg_cities_data, ranking_cities,
                   avgVars, statusVars>>

\* ------------------------------------------------- _calc_weighted_avg alone
CalcWeightedAvg ==
    /\ avg_pc = "idle"
    /\ avg_out' = calc_weighted_avg(avg_days)
    /\ avg_pc' = "done"
    /\ UNCHANGED <<main_pc, storeVars, fetchVars, calcVars, aggVars, anVars,
                   avg_days, statusVars>>

\* ------------------------------------------------------- storage accesses
\* The per-city tasks that are running, and the keys each of them may
\* write and read while it runs.
RunningTasks ==
    {<<"fetch", c>> : c \in {d \in CITIES : futures[d].state = "running"}}
        \cup {<<"calc", c>> : c \in {d \in CITIES : calc_tasks[d].state = "running"}}
        \cup {<<"agg", c>> : c \in {d \in CITIES : agg_tasks[d].state = "running"}}

Writes(task) ==
    CASE task[1] = "fetch" -> {FetchedKey(task[2])}
      [] task[1] = "calc" -> {CalcKey(task[2])}
      [] task[1] = "agg" -> {}

Reads(task) ==
    CASE task[1] = "fetch" -> {}
      [] task[1] = "calc" -> {FetchedKey(task[2])}
      [] task[1] = "agg" -> {CalcKey(task[2])}

\* --------------------------------------------------- _calc_city_data alone
\* _calc_city_data(city_name) from the return of subprocess.run on.
CalcCityData(city_name) ==
    /\ status_pc = "idle"
    /\ calc_result' = calc_city_data(city_name, run_stderr)
    /\ status_pc' = "done"
    /\ UNCHANGED <<main_pc, storeVars, fetchVars, calcVars, aggVars, anVars,
                   avgVars, run_stderr>>

\* --------------------------------------------------------------- __main__
\* DataCalculationTask(cities).run() follows the return of the fetch run,
\* whose queue is dropped with the task.
MainCalc ==
    /\ main_pc = "fetch" /\ fetch_pc = "returned"
    /\ main_pc' = "calc" /\ calc_pc' = "idle"
    /\ collected' = {} /\ queue' = <<>> /\ expired' = FALSE /\ late' = {}
    /\ UNCHANGED <<storeVars, fetch_pc, futures, seen, calc_tasks, calc_results,
                   aggVars, anVars,
                   avgVars, statusVars>>

MainAgg ==
    /\ main_pc = "calc" /\ calc_pc = "returned"
    /\ main_pc' = "agg" /\ agg_pc' = "idle"
    /\ UNCHANGED <<storeVars, fetchVars, calcVars, agg_tasks, agg_data, agg_first,
                   agg_runs, reapplied, anVars,
                   avgVars, statusVars>>

\* DataAnalyzingTask(agg_data).run()
MainAnalyze ==
    /\ main_pc = "agg" /\ agg_pc = "returned"
    /\ main_pc' = "analyze" /\ an_pc' = "idle"
    /\ agg_cities_data' = agg_data /\ given' = agg_data
    /\ UNCHANGED <<storeVars, fetchVars, calcVars, aggVars, ranking_cities,
                   best_cities, report,
                   avgVars, statusVars>>

MainDone ==
    /\ main_pc = "analyze" /\ an_pc = "returned"
    /\ main_pc' = "done"
    /\ UNCHANGED <<storeVars, fetchVars, calcVars, aggVars, anVars,
                   avgVars, statusVars>>

\* No stage's exception is handled: the program ends with it.
Crash ==
    /\ main_pc' = "crashed"
    /\ UNCHANGED <<storeVars, fetchVars, calcVars, aggVars, anVars,
                   avgVars, statusVars>>

MainCrashFetch == main_pc = "fetch" /\ fetch_pc = "raised" /\ Crash
MainCrashAgg == main_pc = "agg" /\ agg_pc = "raised" /\ Crash
MainCrashAnalyze == main_pc = "analyze" /\ an_pc = "raised" /\ Crash

\* --------------------------------------------------------- specifications
\* What the source answers in a pipeline run.
PipelineOutcomes == {"info", "unreachable"}

\* A pipeline run over a data directory that may hold files from before.
Init ==
    /\ main_pc = "fetch"
    /\ fetched \in [CITIES -> {"absent", "stale"}]
    /\ calc_files \in [CITIES -> {NoFile, EmptyDocFile, DocFile(Warm, FALSE)}]
    /\ fetch_pc = "idle" /\ FetchIdle
    /\ calc_pc = "off" /\ CalcIdle
    /\ agg_pc = "off" /\ AggIdle
    /\ an_pc = "off" /\ AnIdle
    /\ AvgOff
    /\ StatusOff

FetchNext(outcomes) ==
    \/ FetchSubmit
    \/ \E c \in CITIES : FetchStart(c)
    \/ \E c \in CITIES, o \in outcomes : FetchFinish(c, o)
    \/ FetchAsCompleted
    \/ FetchWait
    \/ FetchWake
    \/ \E c \in CITIES : FetchCollect(c)
    \/ DeadlineExpire
    \/ FetchTimeout
    \/ FetchReturn
    \/ FetchRaise

CalcNext(daysets) ==
    \/ CalcMap
    \/ \E c \in CITIES : CalcStart(c)
    \/ \E c \in CITIES, how \in TransformHows, days \in daysets :
            CalcFinish(c, how, days)
    \/ CalcReturn

AggNext ==
    \/ AggMap
    \/ \E c \in CITIES : AggStart(c)
    \/ \E c \in CITIES : AggFinish(c)
    \/ AggReturn
    \/ AggRaise

AnalyzeNext ==
    \/ AnalyzeRank
    \/ \E how \in ReportHows : AnalyzeFind(how)

Next ==
    \/ FetchNext(PipelineOutcomes)
    \/ CalcNext(TransformDays)
    \/ AggNext
    \/ AnalyzeNext
    \/ MainCalc
    \/ MainAgg
    \/ MainAnalyze
    \/ MainDone
    \/ MainCrashFetch
    \/ MainCrashAgg
    \/ MainCrashAnalyze

Spec == Init /\ [][Next]_vars

\* DataFetchingTask(cities).run() on its own, with every answer of the source.
InitFetch ==
    /\ main_pc = "none"
    /\ fetched \in [CITIES -> {"absent", "stale"}]
    /\ calc_files = [c \in CITIES |-> NoFile]
    /\ fetch_pc = "idle" /\ FetchIdle
    /\ calc_pc = "off" /\ CalcIdle
    /\ agg_pc = "off" /\ AggIdle
    /\ an_pc = "off" /\ AnIdle
    /\ AvgOff
    /\ StatusOff

NextFetch == FetchNext(SourceOutcomes)

SpecFetch == InitFetch /\ [][NextFetch]_vars

\* DataCalculationTask(cities).run() on its own.
InitCalc ==
    /\ main_pc = "none"
    /\ fetched \in [CITIES -> {"absent", "stale"}]
    /\ calc_files \in [CITIES -> {NoFile, DocFile(Warm, FALSE)}]
    /\ fetch_pc = "off" /\ FetchIdle
    /\ calc_pc = "idle" /\ CalcIdle
    /\ agg_pc = "off" /\ AggIdle
    /\ an_pc = "off" /\ AnIdle
    /\ AvgOff
    /\ StatusOff

NextCalc == CalcNext(TransformDays)

SpecCalc == InitCalc /\ [][NextCalc]_vars

\* DataAggregationTask(cities).run() on its own, over every kind of file.
AggregatedFiles ==
    {NoFile, BadFile, EmptyDocFile, DocFile(Warm, FALSE), DocFile(Cool, FALSE),
     DocFile(NoHours, FALSE)}

InitAggregate ==
    /\ main_pc = "none"
    /\ fetched = [c \in CITIES |-> "absent"]
    /\ calc_files \in [CITIES -> AggregatedFiles]
    /\ fetch_pc = "off" /\ FetchIdle
    /\ calc_pc = "off" /\ CalcIdle
    /\ agg_pc = "idle" /\ AggIdle
    /\ an_pc = "off" /\ AnIdle
    /\ AvgOff
    /\ StatusOff

NextAggregate ==
    \/ AggNext
    \/ AggRerun
    \/ \E c \in CITIES : Reaggregate(c)

SpecAggregate == InitAggregate /\ [][NextAggregate]_vars

\* _calc_weighted_avg on every list of at most MaxDays days.
DayValues(hours, temp, cond) ==
    {Day(1, h, t, r) : h \in -1..hours, t \in -1..temp, r \in 0..cond}

DayLists(n) == UNION {[1..k -> DayValues(MaxHours, MaxTemp, MaxCond)] : k \in 0..n}

InitAvg ==
    /\ main_pc = "none"
    /\ fetched = [c \in CITIES |-> "absent"]
    /\ calc_files = [c \in CITIES |-> NoFile]
    /\ fetch_pc = "off" /\ FetchIdle
    /\ calc_pc = "off" /\ CalcIdle
    /\ agg_pc = "off" /\ AggIdle
    /\ an_pc = "off" /\ AnIdle
    /\ avg_pc = "idle" /\ avg_days \in DayLists(MaxDays) /\ avg_out = NoAvg
    /\ StatusOff

SpecAvg == InitAvg /\ [][CalcWeightedAvg]_vars

\* _calc_city_data for every diagnostic stream of at most MaxFragments
\* fragments.
Fragments == {"OK", NoSuchFile, "Traceback", "FileNotFoundError"}
Texts(n) == UNION {[1..k -> Fragments] : k \in 0..n}

InitStatus ==
    /\ main_pc = "none"
    /\ fetched = [c \in CITIES |-> "absent"]
    /\ calc_files = [c \in CITIES |-> NoFile]
    /\ fetch_pc = "off" /\ FetchIdle
    /\ calc_pc = "off" /\ CalcIdle
    /\ agg_pc = "off" /\ AggIdle
    /\ an_pc = "off" /\ AnIdle
    /\ AvgOff
    /\ status_pc = "idle" /\ run_stderr \in Texts(MaxFragments)
    /\ calc_result = NoCalcResult

NextStatus == \E c \in CITIES : CalcCityData(c)

SpecStatus == InitStatus /\ [][NextStatus]_vars

\* DataAnalyzingTask(agg_cities_data).run() on its own, over dicts of at most
\* MaxKeys records as the aggregation gives them, and records without a
\* 'status' key.
Mild == <<Day(1, 1, 1, 0), Day(2, 1, 1, 1)>>
Hot == <<Day(1, 1, 1, 1), Day(2, 0, 0, 0), Day(3, 1, 1, 1)>>
Undated == <<Day(0, 1, 1, 1)>>
AnalyzedFiles ==
    {NoFile, EmptyDocFile, DocFile(Warm, FALSE), DocFile(Cool, FALSE),
     DocFile(Mild, FALSE), DocFile(Hot, FALSE), DocFile(Undated, FALSE)}

\* The record of a city: what the aggregation gives for a file, or the
\* record of the file Warm without its 'status' key.
NoStatus == [kind |-> "no status", days |-> Warm, fresh |-> FALSE]
AnalyzedKinds == AnalyzedFiles \cup {NoStatus}
AnalyzedRecord(c, kind) ==
    IF kind = NoStatus
        THEN [get_agg_city_data(c, DocFile(Warm, FALSE)).record
                EXCEPT !.has_status = FALSE, !.status = ""]
        ELSE get_agg_city_data(c, kind).record

AnalyzedDicts(n) ==
    UNION {{[c \in 1..k |-> AnalyzedRecord(c, kinds[c])] :
                kinds \in [1..k -> AnalyzedKinds]} : k \in 0..n}

InitAnalyze ==
    /\ main_pc = "none"
    /\ fetched = [c \in CITIES |-> "absent"]
    /\ calc_files = [c \in CITIES |-> NoFile]
    /\ fetch_pc = "off" /\ FetchIdle
    /\ calc_pc = "off" /\ CalcIdle
    /\ agg_pc = "off" /\ AggIdle
    /\ an_pc = "idle" /\ agg_cities_data \in AnalyzedDicts(MaxKeys)
    /\ given = agg_cities_data
    /\ ranking_cities = <<>> /\ best_cities = <<>> /\ report = <<>>
    /\ AvgOff
    /\ StatusOff

SpecAnalyze == InitAnalyze /\ [][AnalyzeNext]_vars

\* ============================================================= properties
FetchStarted == \E c \in CITIES : futures[c].state # "pending"
CalcStarted == \E c \in CITIES : calc_tasks[c].state # "pending"
AggStarted == \E c \in CITIES : agg_tasks[c].state # "pending"
AnalyzeStarted == an_pc \notin {"off", "idle"}

\* C1: in a pipeline run no per-city task of a stage has started unless
\* every per-city task of the stage before it has ended; after the fetch
\* deadline has expired with fetches in flight no later stage starts at all.
C1_StageBarrier ==
    /\ CalcStarted => \A c \in CITIES : futures[c].state = "finished"
    /\ AggStarted => \A c \in CITIES : calc_tasks[c].state = "done"
    /\ AnalyzeStarted => \A c \in CITIES : agg_tasks[c].state = "done"
    /\ fetch_pc \in {"unwinding", "raised"} =>
            ~CalcStarted /\ ~AggStarted /\ ~AnalyzeStarted

\* A task of the aggregation stage runs beside one that has not started.
C1_Witness ==
    /\ main_pc = "agg"
    /\ \E c, d \in CITIES :
            agg_tasks[c].state = "running" /\ agg_tasks[d].state = "pending"

\* The run of DataFetchingTask has ended, by a return or by an exception.
FetchEnded == fetch_pc \in {"returned", "raised"}

\* The queue holds one record for each city of S, the result of its task.
QueueHoldsExactly(S) ==
    /\ Len(queue) = Cardinality(S)
    /\ \A c \in S : \E i \in 1..Len(queue) : queue[i] = futures[c].result
    /\ \A i \in 1..Len(queue) : queue[i].city_name \in S

\* C2: when the deadline expired with fetches unfinished, run returns (it
\* does not raise) and the queue holds exactly the results of the fetches
\* that had finished by then.
C2_DeadlineReturnsCompleted ==
    (FetchEnded /\ late # {}) =>
        (fetch_pc = "returned" /\ QueueHoldsExactly(CITIES \ late))

\* The status a response of the source deserves.
DeservedStatus(outcome) ==
    CASE outcome = "info" -> "OK"
      [] outcome = "noinfo" -> "No info"
      [] outcome = "unreachable" -> "Unexpected error: <urlopen error>"
      [] outcome = "badstatus" -> "Unexpected error: Error during execute request."
      [] outcome = "malformed" -> "Unexpected error: Extra data"

SourceFailures == {"unreachable", "badstatus", "malformed"}

EveryCityHasItsRecord ==
    /\ QueueHoldsExactly(CITIES)
    /\ \A i \in 1..Len(queue) :
            queue[i].status = DeservedStatus(futures[queue[i].city_name].outcome)

\* C3: when the source call of some cities failed, run raises nothing and
\* every city, failing or not, has its record with the status its own
\* response deserves; nothing bounds how long a failing call
\* takes, so this is stated for a failing call that outlasts the deadline.
C3_SourceFailuresIsolated ==
    (FetchEnded /\ \E c \in late : futures[c].outcome \in SourceFailures) =>
        (fetch_pc = "returned" /\ EveryCityHasItsRecord)

\* Whenever run does return, every city has its record: a source failure
\* alone never makes run raise.
ReturnedQueueIsComplete == fetch_pc = "returned" => EveryCityHasItsRecord

\* The cities of the rows of the report.
Reported == {report[i].city : i \in 1..Len(report)} \ {0}
Winners == {best_cities[i] : i \in 1..Len(best_cities)}

\* The city went through fetch, calculate and aggregate with status OK in
\* this run.
CompletedEveryStage(c) ==
    /\ futures[c].result.status = "OK"
    /\ calc_results[c] = OK
    /\ agg_data[c].status = "OK"

\* C4: at the end of a pipeline run every city of the winner list and of
\* the report completed every stage with status OK in this run, whatever
\* the data directory held at the start.
C4_OnlyCompletedCitiesReported ==
    main_pc = "done" => \A c \in Winners \cup Reported : CompletedEveryStage(c)

\* The rankable cities of the dict the analysis was given, and their tuples.
GivenRankable == {c \in DOMAIN given : given[c].has_status /\ given[c].status = "OK"}
TupleOf(c) == <<given[c].data.agg_temp_avg, given[c].data.agg_relevant_cond_hours>>
RankOf(c) == agg_cities_data[c].rank

\* C5: run returns the rankable cities whose tuple equals that of the
\* rank-1 city, each once, in increasing rank order with the rank-1 city
\* first, and the empty list when no city is rankable.
C5_WinnersAreTheTopTies ==
    an_pc = "returned" =>
        IF GivenRankable = {} THEN best_cities = <<>>
        ELSE \E top \in GivenRankable :
                /\ RankOf(top) = 1
                /\ best_cities[1] = top
                /\ Winners = {c \in GivenRankable : TupleOf(c) = TupleOf(top)}
                /\ \A i, j \in 1..Len(best_cities) :
                        i < j => RankOf(best_cities[i]) < RankOf(best_cities[j])

\* Two cities tie for the first place and a third one is ranked below them.
C5_Witness ==
    /\ an_pc = "returned"
    /\ Len(best_cities) = 2
    /\ Cardinality(GivenRankable) > 2

\* C6: after _rank_cities over N rankable cities the ranks are the integers
\* 1..N, each held by exactly one city, in the dict and in the entries.
C6_RanksAreDense ==
    an_pc \in {"ranked", "returned"} =>
        LET N == Cardinality(GivenRankable) IN
        /\ DOMAIN agg_cities_data = GivenRankable
        /\ {RankOf(c) : c \in GivenRankable} = 1..N
        /\ \A c, d \in GivenRankable : c # d => RankOf(c) # RankOf(d)
        /\ Len(ranking_cities) = N
        /\ \A i \in 1..N : RankOf(ranking_cities[i].city_name) = ranking_cities[i].rank

\* Three cities are ranked and two of them have equal tuples.
C6_Witness ==
    /\ an_pc = "ranked"
    /\ Cardinality(GivenRankable) >= 3
    /\ \E c, d \in GivenRankable : c # d /\ TupleOf(c) = TupleOf(d)

\* C7: after _rank_cities a city whose status is missing or is not 'OK' has
\* no ranking entry and no rank, and is in neither the dict handed on, the
\* winner list nor the report.
C7_NonOkCitiesAreDropped ==
    an_pc \in {"ranked", "returned"} =>
        \A c \in DOMAIN given \ GivenRankable :
            /\ c \notin DOMAIN agg_cities_data
            /\ \A i \in 1..Len(ranking_cities) : ranking_cities[i].city_name # c
            /\ c \notin Winners
            /\ c \notin Reported

\* A city without a status and a city with an error status were given
\* beside a rankable one, and the report was written.
C7_Witness ==
    /\ an_pc = "returned"
    /\ report # <<>>
    /\ \E c, d \in DOMAIN given :
            ~given[c].has_status /\ given[d].has_status /\ given[d].status # "OK"

\* The sum of hours_count * value over the days with hours_count > 0, by
\* the indices of the list; value "one" gives the sum of hours_count.
RECURSIVE LiveSum(_, _, _)
LiveSum(days, value, n) ==
    IF n = 0 THEN 0
    ELSE LET day == days[n]
             v == CASE value = "temp_avg" -> day.temp_avg
                    [] value = "relevant_cond_hours" -> day.relevant_cond_hours
                    [] value = "one" -> 1
         IN (IF day.hours_count > 0 THEN day.hours_count * v ELSE 0)
                + LiveSum(days, value, n - 1)

\* C8: for a list of days with some hours_count > 0, each average times T,
\* the sum of the positive hours_count, is the sum of hours_count * value
\* over the days with hours_count > 0; another temp_avg or
\* relevant_cond_hours on a day with hours_count = 0 changes neither.
C8_WeightedAverage ==
    (avg_pc = "done" /\ \E i \in 1..Len(avg_days) : avg_days[i].hours_count > 0) =>
        LET n == Len(avg_days)
            T == LiveSum(avg_days, "one", n)
            t == avg_out.agg_temp_avg
            r == avg_out.agg_relevant_cond_hours
        IN /\ ~avg_out.raised
           /\ t[2] > 0 /\ t[1] * T = LiveSum(avg_days, "temp_avg", n) * t[2]
           /\ r[2] > 0 /\ r[1] * T = LiveSum(avg_days, "relevant_cond_hours", n) * r[2]
           /\ \A i \in 1..n, tv \in -1..MaxTemp, rv \in 0..MaxCond :
                avg_days[i].hours_count = 0 =>
                    calc_weighted_avg([avg_days EXCEPT ![i].temp_avg = tv,
                                           ![i].relevant_cond_hours = rv]) = avg_out

\* A day without hours, with values of its own, beside a day that counts.
C8_Witness ==
    /\ avg_pc = "done"
    /\ ~avg_out.raised
    /\ \E i, j \in 1..Len(avg_days) :
            /\ avg_days[i].hours_count = 0 /\ avg_days[i].temp_avg # 0
            /\ avg_days[j].hours_count > 1 /\ avg_days[j].temp_avg < 0

\* C9: DataAggregationTask.run returns a dict with a record for every city
\* whatever the file of a city holds: it never ends with an exception.
C9_AggregationAlwaysReturns ==
    /\ agg_pc # "raised"
    /\ agg_pc = "returned" => DOMAIN agg_data = CITIES

\* C10: DataCalculationTask.run returns a dict whose keys are the cities
\* given, whichever transforms failed and whichever fetched files are
\* absent; the status of a city is 'OK' exactly when its own transform
\* printed no diagnostics and says so when its fetched file is absent.
C10_CalculationCoversEveryCity ==
    calc_pc = "returned" =>
        /\ DOMAIN calc_results = CITIES
        /\ \A c \in CITIES :
                /\ calc_results[c] = OK <=> calc_tasks[c].stderr = <<>>
                /\ fetched[c] = "absent" => calc_results[c] = <<NoSuchFile>>
                /\ calc_results[c] \in {OK, <<NoSuchFile>>, calc_tasks[c].stderr}

\* One city's transform succeeded, another city has no fetched file.
C10_Witness ==
    /\ calc_pc = "returned"
    /\ \E c, d \in CITIES :
            /\ calc_results[c] = OK
            /\ fetched[d] = "absent" /\ calc_results[d] # OK

\* The list _find_best_city computes before it generates the report.
ComputedWinners ==
    best_cities_of(agg_cities_data, SortByRank(agg_cities_data, Keys(agg_cities_data)))

\* C11: once the cities are ranked, run returns the winner list computed
\* before the report, whatever the generation of the report raises.
C11_ReportFailuresAreContained ==
    [][an_pc = "ranked" =>
            (an_pc' = "returned" /\ best_cities' = ComputedWinners)]_vars

\* The header dates of the report: the days of the first city of the dict.
HeaderDates == agg_cities_data[Keys(agg_cities_data)[1]].data.days

\* The place the report's layout gives a cell of the city of rank r, with K
\* dates in the header.
InItsPlace(cell, r, K) ==
    CASE cell.what \in {"city", "temp label"} ->
            cell.row = 2 * r - 1 /\ cell.col = (IF cell.what = "city" THEN 0 ELSE 1)
      [] cell.what = "cond label" -> cell.row = 2 * r /\ cell.col = 1
      [] cell.what = "temp_avg" -> cell.row = 2 * r - 1 /\ cell.col \in 2..(K + 1)
      [] cell.what = "relevant_cond_hours" -> cell.row = 2 * r /\ cell.col \in 2..(K + 1)
      [] cell.what = "agg_temp_avg" -> cell.row = 2 * r - 1 /\ cell.col = K + 2
      [] cell.what = "rank" -> cell.row = 2 * r - 1 /\ cell.col = K + 3
      [] cell.what = "agg_relevant_cond_hours" -> cell.row = 2 * r /\ cell.col = K + 2
      [] OTHER -> cell.row = 0

\* C12: the report of N >= 1 ranked cities under a header of K dates has
\* its cells in rows 0..2N and columns 0..K+3, every cell of the city of
\* rank r in its place (rows 2r-1 and 2r, day values in columns 2..K+1,
\* the aggregate in K+2, the rank in K+3), and no cell written twice,
\* whatever days the trim left to each city.
C12_ReportShape ==
    (an_pc = "returned" /\ report # <<>>) =>
        LET N == Cardinality(DOMAIN agg_cities_data)
            K == Len(HeaderDates)
        IN /\ \A i \in 1..Len(report) :
                /\ report[i].row \in 0..(2 * N)
                /\ report[i].col \in 0..(K + 3)
                /\ report[i].city # 0 =>
                        InItsPlace(report[i], agg_cities_data[report[i].city].rank, K)
           /\ \A i, j \in 1..Len(report) :
                (i # j) => <<report[i].row, report[i].col>> # <<report[j].row, report[j].col>>

\* The status of the call of _calc_city_data on its own.
StatusGiven == calc_result.status
MissingInput == run_stderr # <<>> /\ Contains(run_stderr, NoSuchFile)

\* C13 as stated: the status is 'OK' exactly when the diagnostic stream is
\* empty, 'No such file or directory' exactly when the stream is not empty
\* and contains that text, and the raw stream in every other case.
C13_StatusExactlyByStream ==
    status_pc = "done" =>
        /\ StatusGiven = OK <=> run_stderr = <<>>
        /\ StatusGiven = <<NoSuchFile>> <=> MissingInput
        /\ (run_stderr # <<>> /\ ~MissingInput) => StatusGiven = run_stderr

\* C13, amended: the status is 'OK' when the diagnostic stream is empty,
\* 'No such file or directory' exactly when the stream is not empty and
\* contains that text, and the raw stream in every other case; it is 'OK'
\* exactly when the stream is empty or is itself the text 'OK'.
C13_StatusByStream ==
    status_pc = "done" =>
        /\ run_stderr = <<>> => StatusGiven = OK
        /\ StatusGiven = OK <=> (run_stderr = <<>> \/ run_stderr = OK)
        /\ StatusGiven = <<NoSuchFile>> <=> MissingInput
        /\ (run_stderr # <<>> /\ ~MissingInput) => StatusGiven = run_stderr

\* A stream that holds the text among other diagnostics was classified.
C13_Witness ==
    /\ status_pc = "done"
    /\ Len(run_stderr) > 1 /\ run_stderr[1] = "Traceback" /\ MissingInput
    /\ StatusGiven = <<NoSuchFile>>

\* str(err) of the exception that reading a file of this kind raises.
ErrorDescription(kind) ==
    IF kind = "absent" THEN "[Errno 2] No such file or directory"
    ELSE "Expecting value"

\* C14: for a city whose calculated-metrics file is missing or cannot be
\* parsed, _get_agg_city_data returns (it does not raise) a record of that
\* city whose status is the error description and not 'OK', whose data is
\* empty and which has neither average.
C14_UnreadableFileGivesErrorRecord ==
    \A c \in CITIES :
        (agg_tasks[c].state = "done" /\ calc_files[c].kind \in {"absent", "unparsable"}) =>
            LET record == agg_tasks[c].record IN
            /\ ~agg_tasks[c].raised
            /\ record.city_name = c
            /\ record.has_status
            /\ record.status = ErrorDescription(calc_files[c].kind)
            /\ record.status # "OK"
            /\ record.data.empty /\ record.data.days = <<>>
            /\ record.data.agg_temp_avg = Absent
            /\ record.data.agg_relevant_cond_hours = Absent

\* One city's file is missing, another's cannot be parsed, and both were
\* aggregated.
C14_Witness ==
    \E c, d \in CITIES :
        /\ calc_files[c].kind = "absent" /\ agg_tasks[c].state = "done"
        /\ calc_files[d].kind = "unparsable" /\ agg_tasks[d].state = "done"

\* The result of a finished fetch has the status its answer deserves, and
\* the city's fetched file is this run's exactly when that status is 'OK'.
FetchStatusAndFile ==
    \A c \in CITIES :
        /\ futures[c].state = "finished" =>
                /\ futures[c].result.city_name = c
                /\ futures[c].result.status = DeservedStatus(futures[c].outcome)
                /\ futures[c].result.status = "OK" <=> futures[c].outcome = "info"
                /\ futures[c].result.status = "No info" <=> futures[c].outcome = "noinfo"
        /\ fetched[c] = "fresh" <=>
                (futures[c].state = "finished" /\ futures[c].result.status = "OK")

\* A step changes a city's fetched file only by ending that city's fetch
\* with status 'OK', and changes nothing else of the storage.
FetchWritesOnlyOnOK ==
    /\ calc_files' = calc_files
    /\ \A c \in CITIES :
            fetched'[c] # fetched[c] =>
                /\ futures[c].state = "running"
                /\ futures'[c].state = "finished"
                /\ futures'[c].result.status = "OK"
                /\ fetched'[c] = "fresh"

\* C15: a city's fetch result has status 'OK' exactly when the source gave
\* a document with 'info', 'No info' when the document lacks it and the
\* error text when the call failed; the city's fetched file is written in
\* this run exactly when the status is 'OK', and otherwise the storage is
\* left as it was for that city.
C15_FetchStatusAndStorage == []FetchStatusAndFile /\ [][FetchWritesOnlyOnOK]_vars

\* One city was fetched and saved; another got no 'info' or an answer that
\* failed, and its old file is still in place.
C15_Witness ==
    \E c, d \in CITIES :
        /\ futures[c].state = "finished" /\ futures[c].outcome = "info"
        /\ fetched[c] = "fresh"
        /\ futures[d].state = "finished" /\ futures[d].outcome \in {"noinfo", "malformed"}
        /\ fetched[d] = "stale"

\* The two averages of a record.
Averages(record) == <<record.data.agg_temp_avg, record.data.agg_relevant_cond_hours>>

\* C16: when the aggregation is run again over the same files, or
\* _calc_weighted_avg is applied again to a record it has aggregated, every
\* city has the averages the first run gave it.
C16_AggregationIsIdempotent ==
    (agg_pc = "returned" /\ agg_first # <<>>) =>
        \A c \in CITIES : Averages(agg_data[c]) = Averages(agg_first[c])

\* A second run has returned and _calc_weighted_avg was applied again to
\* the record of a city whose averages are not zero.
C16_Witness ==
    /\ agg_pc = "returned" /\ agg_runs = 2
    /\ \E c \in reapplied : agg_data[c].data.agg_temp_avg[1] # 0

\* C17: after _rank_cities, of two ranked cities the one with the smaller
\* rank has the greater agg_temp_avg, or the same agg_temp_avg and an
\* agg_relevant_cond_hours that is not smaller.
C17_RanksFollowTheSortKey ==
    an_pc \in {"ranked", "returned"} =>
        \A a, b \in DOMAIN agg_cities_data :
            agg_cities_data[a].rank < agg_cities_data[b].rank =>
                LET x == agg_cities_data[a].data
                    y == agg_cities_data[b].data
                IN \/ FracLess(y.agg_temp_avg, x.agg_temp_avg)
                   \/ /\ x.agg_temp_avg = y.agg_temp_avg
                      /\ ~FracLess(x.agg_relevant_cond_hours, y.agg_relevant_cond_hours)

\* Three cities are ranked: two differ in temperature, and two have the
\* same temperature and differ in condition hours; the dict gave them in
\* another order than the ranks.
C17_Witness ==
    /\ an_pc = "ranked"
    /\ \E a, b, c \in DOMAIN agg_cities_data :
            /\ FracLess(TupleOf(a)[1], TupleOf(b)[1])
            /\ TupleOf(b)[1] = TupleOf(c)[1] /\ FracLess(TupleOf(b)[2], TupleOf(c)[2])
            /\ a < b /\ b < c
            /\ RankOf(c) = 1 /\ RankOf(b) = 2 /\ RankOf(a) = 3

\* No fetch was unfinished when the deadline passed, if it passed at all.
AllFinishedByDeadline == expired => late = {}

\* C18: when every fetch finished before the deadline, run has returned a
\* queue with exactly one record for each city, none lost and none twice,
\* in whatever order the fetches ended.
C18_OneRecordPerCity ==
    (FetchEnded /\ AllFinishedByDeadline) =>
        /\ fetch_pc = "returned"
        /\ QueueHoldsExactly(CITIES)
        /\ \A i, j \in 1..Len(queue) :
                i # j => queue[i].city_name # queue[j].city_name

\* C19: in a pipeline run over distinct city names no key of the
\* intermediate storage is written by a running per-city task while another
\* running task, of any stage, reads or writes it.
C19_NoConcurrentAccessToAKey ==
    \A t, u \in RunningTasks :
        t # u => Writes(t) \cap (Reads(u) \cup Writes(u)) = {}

\* Two calculation tasks run side by side, each writing its own file.
C19_Witness ==
    /\ main_pc = "calc"
    /\ \E c, d \in CITIES :
            c # d /\ <<"calc", c>> \in RunningTasks /\ <<"calc", d>> \in RunningTasks

\* C20: every record that DataAggregationTask.run returns with status 'OK'
\* has both averages, whatever document its file parsed to, the empty one
\* included, so that _rank_cities finds the averages of each city it keeps.
C20_OkRecordsCarryAverages ==
    agg_pc = "returned" =>
        \A c \in CITIES :
            agg_data[c].status = "OK" =>
                /\ agg_data[c].data.agg_temp_avg # Absent
                /\ agg_data[c].data.agg_relevant_cond_hours # Absent

\* In a pipeline run _rank_cities never raises KeyError for a city it keeps.
RankingFindsItsAverages == main_pc = "analyze" => an_pc # "raised"

====
